---- MODULE Spec2Model ----
(***************************************************************************)
(* Task queue, worker thread, process tracker and script runner of         *)
(* ComfyUI-Nitra (nitra_server.py, web/script_runner.py).                  *)
(*                                                                         *)
(* Threads: the aiohttp event loop ("main", runs the route handlers one    *)
(* at a time), the task_worker threads, and the script threads started by  *)
(* execute_script.  A `with task_worker_lock:` block that makes no         *)
(* blocking call is one step, taken when the lock is free.                 *)
(***************************************************************************)
EXTENDS Integers, Sequences, FiniteSets, TLC

\* ---------------------------------------------------------------- bounds
MaxTasks == 2        \* requests that are given a ticket (queued or spawning)
MaxThreads == 2      \* Thread objects created for task_worker

Tickets == 1..MaxTasks
ThreadIds == 1..MaxThreads

\* ------------------------------------------------------- program constants
\* load_config() returns 'use_local_scripts': False on both of its paths.
USE_LOCAL_SCRIPTS == FALSE

None == 0            \* Python None for tickets, thread ids and process handles

MainThread == <<"main", 0>>
Free == <<"free", 0>>
WorkerName(w) == <<"worker", w>>
ScriptName(t) == <<"script", t>>

VARIABLES
    task_queue,           \* queue.Queue(): tickets, oldest first
    tasks_in_progress,    \* set of <<task_type, id>>
    task_worker_lock,     \* the thread holding the lock, or Free
    task_worker_thread,   \* None or the id of the Thread object
    running_processes,    \* task id -> [process, script_runner]
    nitra_active_updates, \* status per user_email ("absent" when no key)
    tasks,                \* per ticket: the request that was accepted
    nreq,                 \* tickets handed out so far
    threads,              \* per Thread object of task_worker: pc, ticket, ...
    procs,                \* per ticket: state of the subprocess spawned for it
    runners,              \* per ticket: the ScriptRunner object's fields
    dirs,                 \* temporary directories that exist on disk
    main,                 \* the event loop thread: the handler it is inside
    scripts,              \* per ticket: pc of the _run_script_task thread
    started,              \* history: tickets in the order the worker took them
    finished,             \* history: tickets whose execute_*_task returned
    unlocked_writes,      \* dictionaries the last step wrote without the lock
    unauth_changes,       \* route that acted in the last step without a Bearer
    response,             \* what execute_script answered in the last step
    term,                 \* input/result of one _terminate_child_process call
    sr,                   \* one run_script_with_cleanup call: pc, inputs, result
    dev                   \* device state file, credential store, token cache

vars == <<task_queue, tasks_in_progress, task_worker_lock, task_worker_thread,
          running_processes, nitra_active_updates, tasks, nreq, threads, procs,
          runners, dirs, main, scripts, started, finished, unlocked_writes,
          unauth_changes, response, term, sr, dev>>

\* ------------------------------------------------------------- helpers
Users == {"u1"}

\* dict helpers: a dict is a function whose DOMAIN is its key set
DictPut(d, k, v) == [x \in (DOMAIN d) \cup {k} |-> IF x = k THEN v ELSE d[x]]
DictDel(d, k) == [x \in (DOMAIN d) \ {k} |-> d[x]]
EmptyDict == [x \in {} |-> 0]

\* keys of running_processes / ids in task_data
TaskId(kind, user, t) ==
    CASE kind = "workflow" -> <<"workflow", user, 0>>          \* f"workflow_{user_id}"
      [] kind = "model"    -> <<"models", user, 0>>            \* f"models_{user_id}"
      [] kind = "package"  -> <<"package_install", user, t>>   \* ..._{id(process)}
      [] OTHER             -> <<"script", "", t>>              \* script_{name}_{time}

NoTask == [kind |-> "none", user |-> "", verified |-> FALSE]

FreshRunner == [temp_dir |-> None, script_path |-> None]

IdleMain == [pc |-> "idle", handler |-> "none", bearer |-> FALSE,
             ticket |-> None, entries |-> EmptyDict, email |-> "",
             cancelled_count |-> 0, cleared_queue |-> 0, at_call |-> {}]

\* no response of execute_script in the last step
NoAnswer == [gate |-> "", status |-> None]

IdleWorker == [pc |-> "unstarted", ticket |-> None, runner |-> FALSE]

AllOk == [sig |-> TRUE, wait1 |-> TRUE, term |-> TRUE, wait2 |-> TRUE,
          kill |-> TRUE]
NoTerm == [os |-> "posix", proc |-> "none", o |-> AllOk, trace |-> <<>>,
           raised |-> FALSE, alive |-> FALSE, done |-> FALSE]

NoSr == [pc |-> "idle", name |-> "", local |-> FALSE, result |-> "none",
         raised |-> FALSE, made |-> None]

\* Python's None and "" are both written "" where only truthiness is read
Truthy(v) == v # ""

Or(a, b) == IF Truthy(a) THEN a ELSE b

\* a JSON object is a function from its keys to strings
EmptyState == [k \in {} |-> ""]

\* no device state on disk, nothing cached, nothing in the credential store
NoDev == [exists |-> FALSE, file |-> EmptyState,
          legacy_exists |-> FALSE, legacy |-> EmptyState,
          cache |-> "", keyring |-> TRUE, store |-> EmptyState,
          written |-> <<>>, got |-> FALSE, ret |-> "",
          o |-> [rd |-> TRUE, wr |-> TRUE, kr |-> TRUE]]

\* ------------------------------------------------ _terminate_child_process
OsNames == {"posix", "nt"}
ProcStates == {"none", "running", "exited"}     \* "none": the handle is None

\* what the calls made on the Popen object do in one invocation:
\*   sig   send_signal(CTRL_BREAK_EVENT) returns (FALSE: it raises)
\*   wait1 the wait(timeout=5) after it returns (FALSE: TimeoutExpired)
\*   term  terminate() returns, wait2 the wait(timeout=5) after it returns
\*   kill  kill() returns
TermOutcomes == [sig : BOOLEAN, wait1 : BOOLEAN, term : BOOLEAN,
                 wait2 : BOOLEAN, kill : BOOLEAN]

\* the inner try of the os.name == 'nt' branch: the calls made, and whether
\* the function returned from inside it
nt_ctrl_break(os, o) ==
    IF os # "nt" THEN [trace |-> <<>>, returned |-> FALSE]
    ELSE IF ~o.sig THEN [trace |-> <<"send_signal">>, returned |-> FALSE]
    ELSE [trace |-> <<"send_signal", "wait">>, returned |-> o.wait1]

\* the except handler of the outer try: kill(), its exception swallowed
kill_unguarded(o) == [trace |-> <<"kill">>, raised |-> ~o.kill, alive |-> ~o.kill]
kill_swallowed(o) == [trace |-> <<"kill">>, raised |-> FALSE, alive |-> ~o.kill]

terminate_child_process(os, proc, o) ==
    IF proc # "running"
    THEN [trace |-> <<>>, raised |-> FALSE, alive |-> FALSE]
    ELSE LET nt == nt_ctrl_break(os, o) IN
         IF nt.returned
         THEN [trace |-> nt.trace, raised |-> FALSE, alive |-> FALSE]
         ELSE LET body == nt.trace \o (IF o.term THEN <<"terminate", "wait">>
                                                 ELSE <<"terminate">>)
              IN IF o.term /\ o.wait2
                 THEN [trace |-> body, raised |-> FALSE, alive |-> FALSE]
                 ELSE LET k == kill_swallowed(o) IN
                      [trace |-> body \o k.trace, raised |-> k.raised,
                       alive |-> k.alive]

\* whether a running process can be left alive / is ended by a call of
\* _terminate_child_process, on either platform
TermAlive == {terminate_child_process(os, "running", o).alive :
                 os \in OsNames, o \in TermOutcomes}

\* the processes in P are handed to _terminate_child_process; those in S
\* survive it
AfterTerminate(P, S) ==
    [t \in Tickets |-> IF t \in P \ S /\ procs[t] = "running" THEN "exited"
                       ELSE procs[t]]
CanSurvive(P, S) ==
    /\ S \subseteq {t \in P : procs[t] = "running"}
    /\ \A t \in P : procs[t] = "running" => (t \in S) \in TermAlive

\* ------------------------------------------------------------ ScriptRunner
ScriptNames == {"model_downloads", "sageattention", "windows_triton",
                "workflow_downloader", "torch_updater", "onnx_installer"}
\* script_mapping of _use_local_script
script_mapping == {"model_downloads", "sageattention", "windows_triton",
                   "workflow_downloader"}

\* how a download_script call goes:
\*   mkdtemp_raise  tempfile.mkdtemp raises
\*   unavailable    False before script_path is set (no token, API error,
\*                  no downloadUrl; local: unknown name or file missing)
\*   transfer_error False after script_path is set (GET/write/copy2 raises)
\*   ok             True
DownloadOutcomes == {"mkdtemp_raise", "unavailable", "transfer_error", "ok"}

download_script(r, ds, d, name, local, outcome) ==
    IF outcome = "mkdtemp_raise"
    THEN [runner |-> r, dirs |-> ds, ok |-> FALSE]
    ELSE IF outcome = "unavailable" \/ (local /\ name \notin script_mapping)
    THEN [runner |-> [r EXCEPT !.temp_dir = d], dirs |-> ds \cup {d}, ok |-> FALSE]
    ELSE [runner |-> [temp_dir |-> d, script_path |-> d], dirs |-> ds \cup {d},
          ok |-> (outcome = "ok")]

\* how the script subprocess of run_script goes
\*   raise: an exception that `except Exception` does not catch
RunOutcomes == {"exit0", "exit_nonzero", "popen_error", "raise"}

run_script(r, ds, outcome) ==
    IF r.script_path = None \/ r.script_path \notin ds
    THEN [result |-> "not_available", raised |-> FALSE]
    ELSE CASE outcome = "exit0"        -> [result |-> "success", raised |-> FALSE]
           [] outcome = "exit_nonzero" -> [result |-> "failed", raised |-> FALSE]
           [] outcome = "popen_error"  -> [result |-> "error", raised |-> FALSE]
           [] OTHER                    -> [result |-> "none", raised |-> TRUE]

cleanup_keep_fields(r, ds) ==
    IF r.temp_dir # None /\ r.temp_dir \in ds
    THEN [runner |-> r, dirs |-> ds \ {r.temp_dir}]
    ELSE [runner |-> r, dirs |-> ds]
cleanup(r, ds) ==
    IF r.temp_dir # None /\ r.temp_dir \in ds
    THEN [runner |-> FreshRunner, dirs |-> ds \ {r.temp_dir}]
    ELSE [runner |-> r, dirs |-> ds]

\* ---------------------------------------------------------- initial state
InitCommon ==
    /\ task_queue = <<>>
    /\ tasks_in_progress = {}
    /\ task_worker_lock = Free
    /\ task_worker_thread = None
    /\ running_processes = EmptyDict
    /\ nitra_active_updates = [u \in Users |-> "absent"]
    /\ tasks = [t \in Tickets |-> NoTask]
    /\ nreq = 0
    /\ threads = [w \in ThreadIds |-> IdleWorker]
    /\ procs = [t \in Tickets |-> "none"]
    /\ runners = [t \in Tickets |-> FreshRunner]
    /\ dirs = {}
    /\ main = IdleMain
    /\ scripts = [t \in Tickets |-> "none"]
    /\ started = <<>>
    /\ finished = {}
    /\ unlocked_writes = {}
    /\ unauth_changes = {}
    /\ response = NoAnswer

\* ------------------------- one call of _terminate_child_process(proc, id)
InitTerminate ==
    /\ InitCommon
    /\ sr = NoSr
    /\ dev = NoDev
    /\ term \in [os : OsNames, proc : ProcStates, o : TermOutcomes,
                 trace : {<<>>}, raised : {FALSE}, alive : {FALSE},
                 done : {FALSE}]

TerminateCall ==
    /\ ~term.done
    /\ LET r == terminate_child_process(term.os, term.proc, term.o) IN
       term' = [term EXCEPT !.trace = r.trace, !.raised = r.raised,
                            !.alive = r.alive, !.done = TRUE]
    /\ UNCHANGED <<task_queue, tasks_in_progress, task_worker_lock,
                   task_worker_thread, running_processes, nitra_active_updates,
                   tasks, nreq, threads, procs, runners, dirs, main, scripts,
                   started, finished, unlocked_writes, unauth_changes,
                   response, sr, dev>>

NextTerminate == TerminateCall

SpecTerminate == InitTerminate /\ [][NextTerminate]_vars

\* ------------------- calls of ScriptRunner.run_script_with_cleanup(name, ..)
\* on one ScriptRunner object (runners[1]); mkdtemp names a new directory on
\* every call (nreq counts them)
InitRunner ==
    /\ InitCommon
    /\ term = NoTerm
    /\ sr = NoSr
    /\ dev = NoDev

SrUnchanged ==
    UNCHANGED <<task_queue, tasks_in_progress, task_worker_lock,
                task_worker_thread, running_processes, nitra_active_updates,
                tasks, threads, procs, main, scripts, started, finished,
                unlocked_writes, unauth_changes, response, term, dev>>

\* the caller invokes run_script_with_cleanup(script_name, args, local_test)
SrCall(name, local) ==
    /\ sr.pc = "idle"
    /\ nreq < MaxTasks
    /\ nreq' = nreq + 1
    /\ sr' = [pc |-> "download", name |-> name, local |-> local,
              result |-> "none", raised |-> FALSE, made |-> None]
    /\ UNCHANGED <<runners, dirs>>
    /\ SrUnchanged

\* try: if not self.download_script(...): return {...failure...}
SrDownload(outcome) ==
    /\ sr.pc = "download"
    /\ LET d == download_script(runners[1], dirs, nreq, sr.name, sr.local, outcome) IN
       /\ runners' = [runners EXCEPT ![1] = d.runner]
       /\ dirs' = d.dirs
       /\ sr' = [sr EXCEPT !.pc = IF d.ok THEN "run" ELSE "finally",
                           !.result = IF d.ok THEN "none" ELSE "download_failed",
                           !.made = IF nreq \in d.dirs THEN nreq ELSE None]
    /\ UNCHANGED nreq
    /\ SrUnchanged

\* result = self.run_script(args)
SrRun(outcome) ==
    /\ sr.pc = "run"
    /\ LET r == run_script(runners[1], dirs, outcome) IN
       sr' = [sr EXCEPT !.pc = "finally", !.result = r.result,
                        !.raised = r.raised]
    /\ UNCHANGED <<runners, dirs, nreq>>
    /\ SrUnchanged

\* finally: self.cleanup(); then the return or the propagating exception
SrFinally ==
    /\ sr.pc = "finally"
    /\ LET c == cleanup(runners[1], dirs) IN
       /\ runners' = [runners EXCEPT ![1] = c.runner]
       /\ dirs' = c.dirs
    /\ sr' = [sr EXCEPT !.pc = "returned"]
    /\ UNCHANGED nreq
    /\ SrUnchanged

\* the caller goes on and may call again
SrReturn ==
    /\ sr.pc = "returned"
    /\ sr' = [sr EXCEPT !.pc = "idle"]
    /\ UNCHANGED <<runners, dirs, nreq>>
    /\ SrUnchanged

NextRunner ==
    \/ \E name \in ScriptNames, local \in BOOLEAN : SrCall(name, local)
    \/ \E outcome \in DownloadOutcomes : SrDownload(outcome)
    \/ \E outcome \in RunOutcomes : SrRun(outcome)
    \/ SrFinally
    \/ SrReturn

SpecRunner == InitRunner /\ [][NextRunner]_vars

\* ======================================================================
\* The server: route handlers, task_worker, script threads, subprocesses
\* ======================================================================
InitServer ==
    /\ InitCommon
    /\ sr = NoSr
    /\ term = NoTerm
    /\ dev = NoDev

\* A `with task_worker_lock:` block whose body makes no blocking call is one
\* step: it starts when the lock is free and the lock is free again after it.
\* Two blocks span steps: the one of cancel_execution (it waits for the
\* processes it terminates) and the one in which task_worker finds the queue
\* empty (between the test and the assignment of task_worker_thread).
WithLock == task_worker_lock = Free

\* the dictionaries in W are written in this step by thread self; inWith: the
\* write is inside a `with task_worker_lock:` block of this step
LogWrites(self, W, inWith) ==
    unlocked_writes' = IF inWith \/ task_worker_lock = self THEN {} ELSE W
NoWrites == unlocked_writes' = {}

\* a handler serving a request without a Bearer header changed the queue, a
\* dictionary or a subprocess in this step
LogUnauth(handler, bearer) ==
    unauth_changes' =
        IF ~bearer /\ <<task_queue', running_processes', tasks_in_progress',
                        nitra_active_updates', procs'>>
                      # <<task_queue, running_processes, tasks_in_progress,
                          nitra_active_updates, procs>>
        THEN {handler}
        ELSE {}
NoUnauth == unauth_changes' = {}

\* execute_script returns a response with this HTTP status; gate: the first of
\* the request's checks (Bearer token, user_id, subscription, device) that
\* the request does not pass, "none" when it passes them all
Gate(req) ==
    IF ~req.bearer THEN "bearer"
    ELSE IF ~req.fields THEN "user_id"
    ELSE IF ~req.subscription THEN "subscription"
    ELSE IF ~req.device THEN "device"
    ELSE "none"
Respond(req, status) == response' = [gate |-> Gate(req), status |-> status]
NoResponse == response' = NoAnswer

\* ------------------------------------------------------------ task_worker
is_alive(w) == threads[w].pc \notin {"unstarted", "dead"}

\* `if task_worker_thread is None or not task_worker_thread.is_alive():`
NeedsWorker_always == TRUE
NeedsWorker == task_worker_thread = None \/ ~is_alive(task_worker_thread)

UnusedThreads == {w \in ThreadIds : ~is_alive(w)}
NewThread == CHOOSE w \in UnusedThreads : \A x \in UnusedThreads : w <= x

\* task_worker_thread = threading.Thread(target=task_worker); .start()
StartWorkerIfNeeded ==
    IF NeedsWorker
    THEN /\ UnusedThreads # {}
         /\ task_worker_thread' = NewThread
         /\ threads' = [threads EXCEPT ![NewThread] =
                           [pc |-> "loop", ticket |-> None, runner |-> FALSE]]
    ELSE UNCHANGED <<task_worker_thread, threads>>

\* task_queue.put((task_type, task_data)): the request gets the next ticket
Enqueue(kind, user, verified) ==
    /\ nreq < MaxTasks
    /\ nreq' = nreq + 1
    /\ tasks' = [tasks EXCEPT ![nreq + 1] =
                    [kind |-> kind, user |-> user, verified |-> verified]]
    /\ task_queue' = Append(task_queue, nreq + 1)

\* queue.Queue.get(): FIFO
queue_get_lifo(q) == [item |-> q[Len(q)], rest |-> SubSeq(q, 1, Len(q) - 1)]
queue_get(q) == [item |-> Head(q), rest |-> Tail(q)]

IdOf(t) == TaskId(tasks[t].kind, tasks[t].user, t)

WorkerFrame ==
    /\ UNCHANGED <<nitra_active_updates, tasks, nreq, main, scripts, term, sr, dev>>
    /\ NoUnauth
    /\ NoResponse

\* while True: with task_worker_lock: if task_queue.empty(): (the lock stays
\* held) ... else: task_queue.get(); tasks_in_progress.add(...)
WorkerTake(w) ==
    /\ threads[w].pc = "loop"
    /\ WithLock
    /\ IF task_queue = <<>>
       THEN /\ threads' = [threads EXCEPT ![w].pc = "exit"]
            /\ task_worker_lock' = WorkerName(w)
            /\ UNCHANGED <<task_queue, tasks_in_progress, started>>
            /\ NoWrites
       ELSE LET g == queue_get(task_queue) IN
            /\ task_queue' = g.rest
            /\ tasks_in_progress' = tasks_in_progress \cup
                                      {<<tasks[g.item].kind, IdOf(g.item)>>}
            /\ LogWrites(WorkerName(w), {"tasks_in_progress"}, TRUE)
            /\ started' = Append(started, g.item)
            /\ threads' = [threads EXCEPT ![w].pc = "exec", ![w].ticket = g.item]
            /\ UNCHANGED task_worker_lock
    /\ UNCHANGED <<task_worker_thread, running_processes, procs, runners, dirs,
                   finished>>
    /\ WorkerFrame

\* task_worker_thread = None; return  (the with block is left)
WorkerExit(w) ==
    /\ threads[w].pc = "exit"
    /\ task_worker_thread' = None
    /\ task_worker_lock' = Free
    /\ threads' = [threads EXCEPT ![w].pc = "dead"]
    /\ UNCHANGED <<task_queue, tasks_in_progress, running_processes, procs,
                   runners, dirs, started, finished>>
    /\ NoWrites
    /\ WorkerFrame

\* the directory of the second runner (model_downloads_runner) of a ticket
AuxDir(t) == t + MaxTasks

\* execute_workflow_task / execute_model_task, `if not USE_LOCAL_SCRIPTS:`
\*   runner.download_script(...): on False the task function returns, there is
\*   no else branch and no cleanup;
\*   workflow only: model_downloads_runner.download_script, the copy into the
\*   first runner's directory, `finally: model_downloads_runner.cleanup()`; on
\*   failure the except handler cleans both runners up and falls back to
\*   task_data['cmd']
WorkerDownload(w, outcome, outcome2, copied) ==
    /\ threads[w].pc = "exec"
    /\ ~USE_LOCAL_SCRIPTS
    /\ LET t == threads[w].ticket
           wf == tasks[t].kind = "workflow"
           d == download_script(FreshRunner, dirs, t,
                                IF wf THEN "workflow_downloader"
                                      ELSE "model_downloads", FALSE, outcome)
           a == download_script(FreshRunner, d.dirs, AuxDir(t),
                                "model_downloads", FALSE, outcome2)
           afterCopy == cleanup(a.runner, a.dirs)
           h1 == cleanup(d.runner, IF a.ok THEN afterCopy.dirs ELSE a.dirs)
           h2 == cleanup(IF a.ok THEN afterCopy.runner ELSE a.runner, h1.dirs)
       IN /\ (wf /\ d.ok) \/ (outcome2 = "ok" /\ copied)
          /\ IF ~d.ok
             THEN /\ runners' = [runners EXCEPT ![t] = d.runner]
                  /\ dirs' = d.dirs
                  /\ threads' = [threads EXCEPT ![w].pc = "finish"]
                  /\ finished' = finished \cup {t}
             ELSE IF ~wf
             THEN /\ runners' = [runners EXCEPT ![t] = d.runner]
                  /\ dirs' = d.dirs
                  /\ threads' = [threads EXCEPT ![w].pc = "popen",
                                                ![w].runner = TRUE]
                  /\ UNCHANGED finished
             ELSE IF a.ok /\ copied
             THEN /\ runners' = [runners EXCEPT ![t] = d.runner]
                  /\ dirs' = afterCopy.dirs
                  /\ threads' = [threads EXCEPT ![w].pc = "popen",
                                                ![w].runner = TRUE]
                  /\ UNCHANGED finished
             ELSE /\ runners' = [runners EXCEPT ![t] = h1.runner]
                  /\ dirs' = h2.dirs
                  /\ threads' = [threads EXCEPT ![w].pc = "popen",
                                                ![w].runner = FALSE]
                  /\ UNCHANGED finished
    /\ UNCHANGED <<task_queue, tasks_in_progress, task_worker_lock,
                   task_worker_thread, running_processes, procs, started>>
    /\ NoWrites
    /\ WorkerFrame

\* process = subprocess.Popen(...); the stream threads are started
WorkerPopen(w) ==
    /\ threads[w].pc = "popen"
    /\ procs' = [procs EXCEPT ![threads[w].ticket] = "running"]
    /\ threads' = [threads EXCEPT ![w].pc = "track"]
    /\ UNCHANGED <<task_queue, tasks_in_progress, task_worker_lock,
                   task_worker_thread, running_processes, runners, dirs,
                   started, finished>>
    /\ NoWrites
    /\ WorkerFrame

\* with task_worker_lock: running_processes[task_id] = {'process': process,
\* ..., 'script_runner': runner}
WorkerTrack(w) ==
    /\ threads[w].pc = "track"
    /\ WithLock
    /\ LET t == threads[w].ticket IN
       running_processes' = DictPut(running_processes, IdOf(t),
            [process |-> t,
             script_runner |-> IF threads[w].runner THEN t ELSE None])
    /\ LogWrites(WorkerName(w), {"running_processes"}, TRUE)
    /\ threads' = [threads EXCEPT ![w].pc = "wait"]
    /\ UNCHANGED <<task_queue, tasks_in_progress, task_worker_lock,
                   task_worker_thread, procs, runners, dirs, started, finished>>
    /\ WorkerFrame

\* return_code = process.wait(); the joins; runner.cleanup() on the runner path
WorkerWait(w) ==
    /\ threads[w].pc = "wait"
    /\ procs[threads[w].ticket] = "exited"
    /\ LET t == threads[w].ticket
           c == cleanup(runners[t], dirs)
       IN IF threads[w].runner
          THEN /\ runners' = [runners EXCEPT ![t] = c.runner]
               /\ dirs' = c.dirs
          ELSE UNCHANGED <<runners, dirs>>
    /\ threads' = [threads EXCEPT ![w].pc = "untrack"]
    /\ UNCHANGED <<task_queue, tasks_in_progress, task_worker_lock,
                   task_worker_thread, running_processes, procs, started,
                   finished>>
    /\ NoWrites
    /\ WorkerFrame

\* with task_worker_lock: if task_id in running_processes: del ...; the task
\* function returns
WorkerUntrack_nolock(w) ==
    /\ threads[w].pc = "untrack"
    /\ running_processes' = DictDel(running_processes, IdOf(threads[w].ticket))
    /\ LogWrites(WorkerName(w), {"running_processes"}, FALSE)
    /\ threads' = [threads EXCEPT ![w].pc = "finish"]
    /\ finished' = finished \cup {threads[w].ticket}
    /\ UNCHANGED <<task_queue, tasks_in_progress, task_worker_lock,
                   task_worker_thread, procs, runners, dirs, started>>
    /\ WorkerFrame
WorkerUntrack(w) ==
    /\ threads[w].pc = "untrack"
    /\ WithLock
    /\ running_processes' = DictDel(running_processes, IdOf(threads[w].ticket))
    /\ LogWrites(WorkerName(w), {"running_processes"}, TRUE)
    /\ threads' = [threads EXCEPT ![w].pc = "finish"]
    /\ finished' = finished \cup {threads[w].ticket}
    /\ UNCHANGED <<task_queue, tasks_in_progress, task_worker_lock,
                   task_worker_thread, procs, runners, dirs, started>>
    /\ WorkerFrame

\* set.discard(x)
discard_nothing(S, x) == S
discard(S, x) == S \ {x}

\* with task_worker_lock: tasks_in_progress.discard((task_type, id)); the
\* loop goes round
WorkerFinish(w) ==
    /\ threads[w].pc = "finish"
    /\ WithLock
    /\ LET t == threads[w].ticket IN
       tasks_in_progress' = discard(tasks_in_progress,
                                    <<tasks[t].kind, IdOf(t)>>)
    /\ LogWrites(WorkerName(w), {"tasks_in_progress"}, TRUE)
    /\ threads' = [threads EXCEPT ![w] = [pc |-> "loop", ticket |-> None,
                                          runner |-> FALSE]]
    /\ UNCHANGED <<task_queue, task_worker_lock, task_worker_thread,
                   running_processes, procs, runners, dirs, started, finished>>
    /\ WorkerFrame

Worker(w) ==
    \/ WorkerTake(w)
    \/ WorkerExit(w)
    \/ \E outcome, outcome2 \in DownloadOutcomes, copied \in BOOLEAN :
          WorkerDownload(w, outcome, outcome2, copied)
    \/ WorkerPopen(w)
    \/ WorkerTrack(w)
    \/ WorkerWait(w)
    \/ WorkerUntrack(w)
    \/ WorkerFinish(w)

\* a subprocess ends by itself
ProcExit(t) ==
    /\ procs[t] = "running"
    /\ procs' = [procs EXCEPT ![t] = "exited"]
    /\ UNCHANGED <<task_queue, tasks_in_progress, task_worker_lock,
                   task_worker_thread, running_processes, nitra_active_updates,
                   tasks, nreq, threads, runners, dirs, main, scripts, started,
                   finished, term, sr, dev>>
    /\ NoWrites
    /\ NoUnauth
    /\ NoResponse

\* ---------------------------------------------------------- route handlers
\* a request: whether it carries `Authorization: Bearer <token>`, whether the
\* body has the fields the handler requires, whether
\* _verify_device_registration returns (FALSE: it raises), and the same for
\* _verify_subscription_status
Requests == [bearer : BOOLEAN, fields : BOOLEAN, device : BOOLEAN,
             subscription : BOOLEAN]
\* requests to the routes that read no body field and call no upstream check
BareRequests == {r \in Requests : r.fields /\ r.device /\ r.subscription}
\* requests to the routes that make no subscription check
DeviceRequests == {r \in Requests : r.subscription}
\* requests to install_models
FieldRequests == {r \in Requests : r.device /\ r.subscription}

HandlerFrame ==
    UNCHANGED <<started, finished, term, sr, dev>>

\* POST /nitra/install/workflow
install_workflow(req, user) ==
    /\ main.pc = "idle"
    /\ IF req.bearer /\ req.fields /\ req.device
       THEN /\ Enqueue("workflow", user, TRUE)
            /\ StartWorkerIfNeeded
       ELSE UNCHANGED <<task_queue, tasks, nreq, task_worker_thread, threads>>
    /\ UNCHANGED <<tasks_in_progress, task_worker_lock, running_processes,
                   nitra_active_updates, procs, runners, dirs, main, scripts>>
    /\ NoWrites
    /\ LogUnauth("install_workflow", req.bearer)
    /\ NoResponse
    /\ HandlerFrame

\* POST /nitra/install/models: no device verification is called
install_models(req, user) ==
    /\ main.pc = "idle"
    /\ IF req.bearer /\ req.fields
       THEN /\ Enqueue("model", user, FALSE)
            /\ StartWorkerIfNeeded
       ELSE UNCHANGED <<task_queue, tasks, nreq, task_worker_thread, threads>>
    /\ UNCHANGED <<tasks_in_progress, task_worker_lock, running_processes,
                   nitra_active_updates, procs, runners, dirs, main, scripts>>
    /\ NoWrites
    /\ LogUnauth("install_models", req.bearer)
    /\ NoResponse
    /\ HandlerFrame

\* --- _cleanup_running_processes (reset_queue, on_shutdown, atexit, signal)
\* with task_worker_lock: entries = list(running_processes.items()); both
\* containers are cleared
CleanupSnapshot ==
    /\ main.pc = "cleanup"
    /\ WithLock
    /\ main' = [main EXCEPT !.pc = "cleanup_loop", !.entries = running_processes]
    /\ running_processes' = EmptyDict
    /\ tasks_in_progress' = {}
    /\ LogWrites(MainThread, {"running_processes", "tasks_in_progress"}, TRUE)
    /\ UNCHANGED <<task_queue, task_worker_lock, task_worker_thread,
                   nitra_active_updates, tasks, nreq, threads, procs, runners,
                   dirs, scripts>>
    /\ LogUnauth(main.handler, main.bearer)
    /\ NoResponse
    /\ HandlerFrame

Handles(entries) == {entries[k].process : k \in DOMAIN entries} \ {None}
Runners(entries) == {entries[k].script_runner : k \in DOMAIN entries} \ {None}

RECURSIVE CleanupAll(_, _, _)
\* script_runner.cleanup() for every runner in R, one after the other
CleanupAll(R, rs, ds) ==
    IF R = {} THEN [runners |-> rs, dirs |-> ds]
    ELSE LET t == CHOOSE x \in R : TRUE
             c == cleanup(rs[t], ds)
         IN CleanupAll(R \ {t}, [rs EXCEPT ![t] = c.runner], c.dirs)

\* for task_id, info in entries: _terminate_child_process(proc, task_id); the
\* joins; script_runner.cleanup(); then the function returns
CleanupLoop(S) ==
    /\ main.pc = "cleanup_loop"
    /\ CanSurvive(Handles(main.entries), S)
    /\ procs' = AfterTerminate(Handles(main.entries), S)
    /\ LET c == CleanupAll(Runners(main.entries), runners, dirs) IN
       /\ runners' = c.runners
       /\ dirs' = c.dirs
    /\ main' = IF main.handler = "shutdown"
               THEN [IdleMain EXCEPT !.pc = "stopped"] ELSE IdleMain
    /\ UNCHANGED <<task_queue, tasks_in_progress, task_worker_lock,
                   task_worker_thread, running_processes, nitra_active_updates,
                   tasks, nreq, threads, scripts>>
    /\ NoWrites
    /\ LogUnauth(main.handler, main.bearer)
    /\ NoResponse
    /\ HandlerFrame

\* the interpreter shuts down: _handle_signal, atexit or _aiohttp_cleanup_callback
\* calls _cleanup_running_processes
Shutdown ==
    /\ main.pc = "idle"
    /\ main' = [IdleMain EXCEPT !.pc = "cleanup", !.handler = "shutdown",
                                !.bearer = TRUE]
    /\ UNCHANGED <<task_queue, tasks_in_progress, task_worker_lock,
                   task_worker_thread, running_processes, nitra_active_updates,
                   tasks, nreq, threads, procs, runners, dirs, scripts>>
    /\ NoWrites
    /\ NoUnauth
    /\ NoResponse
    /\ HandlerFrame

\* GET /nitra/queue/reset: with task_worker_lock: task_queue = queue.Queue();
\* then _cleanup_running_processes() is called
reset_queue(req) ==
    /\ main.pc = "idle"
    /\ WithLock
    /\ task_queue' = <<>>
    /\ main' = [IdleMain EXCEPT !.pc = "cleanup", !.handler = "reset_queue",
                                !.bearer = req.bearer]
    /\ UNCHANGED <<tasks_in_progress, task_worker_lock, task_worker_thread,
                   running_processes, nitra_active_updates, tasks, nreq,
                   threads, procs, runners, dirs, scripts>>
    /\ NoWrites
    /\ LogUnauth("reset_queue", req.bearer)
    /\ NoResponse
    /\ HandlerFrame

\* GET /nitra/queue/status: with task_worker_lock: the four reads
queue_status(req) ==
    /\ main.pc = "idle"
    /\ WithLock
    /\ UNCHANGED <<task_queue, tasks_in_progress, task_worker_lock,
                   task_worker_thread, running_processes, nitra_active_updates,
                   tasks, nreq, threads, procs, runners, dirs, main, scripts>>
    /\ NoWrites
    /\ LogUnauth("queue_status", req.bearer)
    /\ NoResponse
    /\ HandlerFrame

\* ------------------------------------------- POST /nitra/execute/cancel
\* 'script' in id or 'workflow' in id or 'install' in id or 'model' in id
should_cancel(id) ==
    id[1] \in {"script", "workflow", "package_install", "models"}

\* no header is read; with task_worker_lock: (at_call: history, the
\* subprocesses that are running when the handler is called)
cancel_execution(req, email) ==
    /\ main.pc = "idle"
    /\ WithLock
    /\ task_worker_lock' = MainThread
    /\ main' = [IdleMain EXCEPT !.pc = "cancel_locked",
                                !.handler = "cancel_execution",
                                !.bearer = req.bearer, !.email = email,
                                !.at_call = {t \in Tickets :
                                                procs[t] = "running"}]
    /\ UNCHANGED <<task_queue, tasks_in_progress, task_worker_thread,
                   running_processes, nitra_active_updates, tasks, nreq,
                   threads, procs, runners, dirs, scripts>>
    /\ NoWrites
    /\ NoUnauth
    /\ NoResponse
    /\ HandlerFrame

\* while not task_queue.empty(): task_queue.get_nowait(); cleared_queue += 1
drain_head_only(q) ==
    IF q = <<>> THEN [rest |-> q, cleared |-> 0]
    ELSE [rest |-> Tail(q), cleared |-> 1]
drain_queue(q) == [rest |-> <<>>, cleared |-> Len(q)]

\* the loop over running_processes (script_runner.terminate() does not exist:
\* its AttributeError is swallowed), the pops with script_runner.cleanup(),
\* the draining of task_queue, and the end of the with block
CancelBody(S) ==
    /\ main.pc = "cancel_locked"
    /\ LET to_remove == {k \in DOMAIN running_processes : should_cancel(k)}
           sel == [k \in to_remove |-> running_processes[k]]
           live == {t \in Handles(sel) : procs[t] = "running"}
           c == CleanupAll(Runners(sel), runners, dirs)
       IN /\ CanSurvive(live, S)
          /\ procs' = AfterTerminate(live, S)
          /\ running_processes' =
                 [k \in (DOMAIN running_processes) \ to_remove |->
                     running_processes[k]]
          /\ runners' = c.runners
          /\ dirs' = c.dirs
          /\ main' = [main EXCEPT !.pc = "cancel_updates",
                                  !.cancelled_count = Cardinality(live),
                                  !.cleared_queue =
                                      drain_queue(task_queue).cleared]
    /\ task_queue' = drain_queue(task_queue).rest
    /\ LogWrites(MainThread, {"running_processes"}, FALSE)
    /\ task_worker_lock' = Free
    /\ UNCHANGED <<tasks_in_progress, task_worker_thread, nitra_active_updates,
                   tasks, nreq, threads, scripts>>
    /\ LogUnauth(main.handler, main.bearer)
    /\ NoResponse
    /\ HandlerFrame

\* SIGINT / SIGTERM arrives while the main thread is inside the with block of
\* cancel_execution (it waits up to 5 s per process there): _handle_signal
\* runs on the main thread, on top of the interrupted handler, and calls
\* _cleanup_running_processes, whose `with task_worker_lock:` requests the
\* threading.Lock that the thread already holds. The acquire never returns.
HandleSignalInLock ==
    /\ main.pc = "cancel_locked"
    /\ task_worker_lock = MainThread
    /\ main' = [main EXCEPT !.pc = "signal_blocked"]
    /\ UNCHANGED <<task_queue, tasks_in_progress, task_worker_lock,
                   task_worker_thread, running_processes, nitra_active_updates,
                   tasks, nreq, threads, procs, runners, dirs, scripts>>
    /\ NoWrites
    /\ NoUnauth
    /\ NoResponse
    /\ HandlerFrame

\* after the with block: the status record of user_email, or of every user
\* whose status is started/running/in_progress, becomes 'cancelled'
CancelUpdates ==
    /\ main.pc = "cancel_updates"
    /\ LET one == main.email # "" /\ nitra_active_updates[main.email] # "absent"
           hit == {u \in Users : nitra_active_updates[u] = "running"}
       IN /\ nitra_active_updates' =
                 [u \in Users |->
                     IF (one /\ u = main.email) \/ (~one /\ u \in hit)
                     THEN "cancelled" ELSE nitra_active_updates[u]]
          /\ LogWrites(MainThread, IF one \/ hit # {}
                                   THEN {"nitra_active_updates"} ELSE {}, FALSE)
    /\ main' = IdleMain
    /\ UNCHANGED <<task_queue, tasks_in_progress, task_worker_lock,
                   task_worker_thread, running_processes, tasks, nreq, threads,
                   procs, runners, dirs, scripts>>
    /\ LogUnauth(main.handler, main.bearer)
    /\ NoResponse
    /\ HandlerFrame

\* ------------------------------------------ POST /nitra/install/package
\* the Bearer check, the body fields, _require_device_registration_only, then
\* process = subprocess.Popen(cmd, ...)
install_package(req, user) ==
    /\ main.pc = "idle"
    /\ IF req.bearer /\ req.fields /\ req.device
       THEN /\ nreq < MaxTasks
            /\ nreq' = nreq + 1
            /\ tasks' = [tasks EXCEPT ![nreq + 1] =
                  [kind |-> "package", user |-> user, verified |-> TRUE]]
            /\ procs' = [procs EXCEPT ![nreq + 1] = "running"]
            /\ main' = [IdleMain EXCEPT !.pc = "package_spawned",
                                        !.handler = "install_package",
                                        !.bearer = req.bearer,
                                        !.ticket = nreq + 1]
       ELSE UNCHANGED <<nreq, tasks, procs, main>>
    /\ UNCHANGED <<task_queue, tasks_in_progress, task_worker_lock,
                   task_worker_thread, running_processes, nitra_active_updates,
                   threads, runners, dirs, scripts>>
    /\ NoWrites
    /\ LogUnauth("install_package", req.bearer)
    /\ NoResponse
    /\ HandlerFrame

\* with task_worker_lock: running_processes[task_id] = {'process': process,
\* ..., 'type': 'package'}
PackageTrack ==
    /\ main.pc = "package_spawned"
    /\ WithLock
    /\ running_processes' = DictPut(running_processes, IdOf(main.ticket),
                               [process |-> main.ticket, script_runner |-> None])
    /\ LogWrites(MainThread, {"running_processes"}, TRUE)
    /\ main' = [main EXCEPT !.pc = "package_communicate"]
    /\ UNCHANGED <<task_queue, tasks_in_progress, task_worker_lock,
                   task_worker_thread, nitra_active_updates, tasks, nreq,
                   threads, procs, runners, dirs, scripts>>
    /\ LogUnauth(main.handler, main.bearer)
    /\ NoResponse
    /\ HandlerFrame

\* process.communicate() returns; finally: with task_worker_lock:
\* running_processes.pop(task_id, None); the response is built and returned
PackagePop ==
    /\ main.pc = "package_communicate"
    /\ procs[main.ticket] = "exited"
    /\ WithLock
    /\ running_processes' = DictDel(running_processes, IdOf(main.ticket))
    /\ LogWrites(MainThread, {"running_processes"}, TRUE)
    /\ main' = IdleMain
    /\ UNCHANGED <<task_queue, tasks_in_progress, task_worker_lock,
                   task_worker_thread, nitra_active_updates, tasks, nreq,
                   threads, procs, runners, dirs, scripts>>
    /\ LogUnauth(main.handler, main.bearer)
    /\ NoResponse
    /\ HandlerFrame

\* ------------------------------------------- POST /nitra/execute/script
\* early: the option handling or the root validation placed before the
\* authentication check raises (install_torch without torch_version); the
\* outer except handler then records 'failed' for user_email.
\* The checks that come first do not read the header or user_id, so an early
\* failure is taken with a request that is otherwise complete.
\* Otherwise: 401, 400, 403 or 428, or the status becomes 'running' and the
\* handler goes on to register the script task.
execute_script(req, user, early) ==
    /\ main.pc = "idle"
    /\ IF early
       THEN /\ nitra_active_updates' =
                  [nitra_active_updates EXCEPT ![user] = "failed"]
            /\ LogWrites(MainThread, {"nitra_active_updates"}, FALSE)
            /\ Respond(req, 500)
            /\ UNCHANGED <<nreq, tasks, main>>
       ELSE IF req.bearer /\ req.fields /\ req.subscription /\ req.device
       THEN /\ nreq < MaxTasks
            /\ nreq' = nreq + 1
            /\ tasks' = [tasks EXCEPT ![nreq + 1] =
                  [kind |-> "script", user |-> user, verified |-> TRUE]]
            /\ nitra_active_updates' =
                  [nitra_active_updates EXCEPT ![user] = "running"]
            /\ LogWrites(MainThread, {"nitra_active_updates"}, FALSE)
            /\ main' = [IdleMain EXCEPT !.pc = "script_register",
                                        !.handler = "execute_script",
                                        !.bearer = req.bearer,
                                        !.ticket = nreq + 1]
            /\ NoResponse
       ELSE /\ UNCHANGED <<nreq, tasks, main, nitra_active_updates>>
            /\ NoWrites
            /\ Respond(req, IF ~req.bearer THEN 401
                             ELSE IF ~req.fields THEN 400
                             ELSE IF ~req.subscription THEN 403
                             ELSE 428)
    /\ UNCHANGED <<task_queue, tasks_in_progress, task_worker_lock,
                   task_worker_thread, running_processes, threads, procs,
                   runners, dirs, scripts>>
    /\ LogUnauth("execute_script", req.bearer)
    /\ HandlerFrame

\* `if not USE_LOCAL_SCRIPTS:` runner = ScriptRunner(...); with
\* task_worker_lock: running_processes[task_id] = {'process': None,
\* 'script_runner': runner}; the thread running _run_script_task is started;
\* the response is returned
ScriptRegister ==
    /\ main.pc = "script_register"
    /\ ~USE_LOCAL_SCRIPTS
    /\ WithLock
    /\ running_processes' = DictPut(running_processes, IdOf(main.ticket),
                               [process |-> None, script_runner |-> main.ticket])
    /\ LogWrites(MainThread, {"running_processes"}, TRUE)
    /\ scripts' = [scripts EXCEPT ![main.ticket] = "download"]
    /\ main' = IdleMain
    /\ UNCHANGED <<task_queue, tasks_in_progress, task_worker_lock,
                   task_worker_thread, nitra_active_updates, tasks, nreq,
                   threads, procs, runners, dirs>>
    /\ LogUnauth(main.handler, main.bearer)
    /\ NoResponse
    /\ HandlerFrame

\* ------------------- _run_script_task: runner_obj.run_script_with_cleanup
ScriptFrame ==
    /\ UNCHANGED <<task_queue, tasks_in_progress, task_worker_lock,
                   task_worker_thread, tasks, nreq, threads, main, started,
                   finished, term, sr, dev>>
    /\ NoUnauth
    /\ NoResponse

\* download_script(s_name, local_test=False)
ScriptDownload(t, outcome) ==
    /\ scripts[t] = "download"
    /\ LET d == download_script(runners[t], dirs, t, "windows_triton", FALSE,
                                outcome) IN
       /\ runners' = [runners EXCEPT ![t] = d.runner]
       /\ dirs' = d.dirs
       /\ scripts' = [scripts EXCEPT ![t] = IF d.ok THEN "run" ELSE "finally"]
    /\ UNCHANGED <<running_processes, nitra_active_updates, procs>>
    /\ NoWrites
    /\ ScriptFrame

\* run_script: 'Script not available' when the file is gone, else Popen
ScriptRun(t) ==
    /\ scripts[t] = "run"
    /\ IF runners[t].script_path = None \/ runners[t].script_path \notin dirs
       THEN /\ scripts' = [scripts EXCEPT ![t] = "finally"]
            /\ UNCHANGED procs
       ELSE /\ scripts' = [scripts EXCEPT ![t] = "reading"]
            /\ procs' = [procs EXCEPT ![t] = "running"]
    /\ UNCHANGED <<running_processes, nitra_active_updates, runners, dirs>>
    /\ NoWrites
    /\ ScriptFrame

\* the readline loop ends when the process has exited
ScriptRead(t) ==
    /\ scripts[t] = "reading"
    /\ procs[t] = "exited"
    /\ scripts' = [scripts EXCEPT ![t] = "finally"]
    /\ UNCHANGED <<running_processes, nitra_active_updates, procs, runners, dirs>>
    /\ NoWrites
    /\ ScriptFrame

\* finally: self.cleanup(); back in _run_script_task the status record of
\* u_email is set to 'completed' or 'failed'
ScriptFinally(t, success) ==
    /\ scripts[t] = "finally"
    /\ success => procs[t] = "exited"
    /\ LET c == cleanup(runners[t], dirs) IN
       /\ runners' = [runners EXCEPT ![t] = c.runner]
       /\ dirs' = c.dirs
    /\ nitra_active_updates' =
          [nitra_active_updates EXCEPT ![tasks[t].user] =
              IF success THEN "completed" ELSE "failed"]
    /\ LogWrites(ScriptName(t), {"nitra_active_updates"}, FALSE)
    /\ scripts' = [scripts EXCEPT ![t] = "pop"]
    /\ UNCHANGED <<running_processes, procs>>
    /\ ScriptFrame

\* finally: with task_worker_lock: running_processes.pop(tid, None); the
\* thread ends
ScriptPop(t) ==
    /\ scripts[t] = "pop"
    /\ WithLock
    /\ running_processes' = DictDel(running_processes, IdOf(t))
    /\ LogWrites(ScriptName(t), {"running_processes"}, TRUE)
    /\ scripts' = [scripts EXCEPT ![t] = "done"]
    /\ UNCHANGED <<nitra_active_updates, procs, runners, dirs>>
    /\ ScriptFrame

ScriptThread(t) ==
    \/ \E outcome \in DownloadOutcomes : ScriptDownload(t, outcome)
    \/ ScriptRun(t)
    \/ ScriptRead(t)
    \/ \E success \in BOOLEAN : ScriptFinally(t, success)
    \/ ScriptPop(t)

Next ==
    \/ \E w \in ThreadIds : Worker(w)
    \/ \E t \in Tickets : ProcExit(t)
    \/ \E req \in DeviceRequests, user \in Users : install_workflow(req, user)
    \/ \E req \in FieldRequests, user \in Users : install_models(req, user)
    \/ \E req \in BareRequests, email \in Users \cup {""} : cancel_execution(req, email)
    \/ \E S \in SUBSET Tickets : CancelBody(S)
    \/ HandleSignalInLock
    \/ CancelUpdates
    \/ \E req \in BareRequests : reset_queue(req)
    \/ Shutdown
    \/ CleanupSnapshot
    \/ \E S \in SUBSET Tickets : CleanupLoop(S)
    \/ \E req \in BareRequests : queue_status(req)
    \/ \E req \in DeviceRequests, user \in Users : install_package(req, user)
    \/ PackageTrack
    \/ PackagePop
    \/ \E early \in BOOLEAN :
          \E req \in (IF early THEN BareRequests ELSE Requests), user \in Users :
             execute_script(req, user, early)
    \/ ScriptRegister
    \/ \E t \in Tickets : ScriptThread(t)

Spec == InitServer /\ [][Next]_vars

\* The queue alone: install_workflow / install_models requests, the worker,
\* cancel_execution, reset_queue, queue_status and shutdown, with no package
\* installs and no script executions.
NextQueue ==
    \/ \E w \in ThreadIds : Worker(w)
    \/ \E t \in Tickets : ProcExit(t)
    \/ \E req \in DeviceRequests, user \in Users : install_workflow(req, user)
    \/ \E req \in FieldRequests, user \in Users : install_models(req, user)
    \/ \E req \in BareRequests, email \in Users \cup {""} : cancel_execution(req, email)
    \/ \E S \in SUBSET Tickets : CancelBody(S)
    \/ HandleSignalInLock
    \/ CancelUpdates
    \/ \E req \in BareRequests : reset_queue(req)
    \/ Shutdown
    \/ CleanupSnapshot
    \/ \E S \in SUBSET Tickets : CleanupLoop(S)
    \/ \E req \in BareRequests : queue_status(req)

SpecQueue == InitServer /\ [][NextQueue]_vars

\* ------------------------------------------------------------------ claims
Executing == {w \in ThreadIds :
                 threads[w].pc \notin {"unstarted", "loop", "exit", "dead"}}

\* C1: queued jobs never run in parallel: at most one worker thread is between
\* taking a task and discarding it, and every task taken before the latest one
\* has finished executing.
C1_NoParallelJobs ==
    /\ Cardinality(Executing) <= 1
    /\ \A i \in 1..(Len(started) - 1) : started[i] \in finished

C1_Witness ==
    /\ Len(started) = 2
    /\ started[1] \in finished
    /\ \E w \in ThreadIds : threads[w].pc = "wait" /\ threads[w].ticket = started[2]

\* C2: jobs run in submission order: of two tasks that are both executed, the
\* one put on task_queue first is started first and has completed before the
\* other is started.
C2_SubmissionOrder ==
    \A i, j \in DOMAIN started :
        i < j => /\ started[i] < started[j]
                 /\ started[i] \in finished

C2_Witness ==
    /\ started = <<1, 2>>
    /\ finished = {1, 2}
    /\ tasks[1].kind = "workflow"
    /\ tasks[2].kind = "model"

\* C10: _terminate_child_process on a running process first requests graceful
\* termination (CTRL_BREAK on Windows, then terminate()) and waits; kill() is
\* the last call and is made only after terminate() raised or its wait timed
\* out; on a None or exited process no call is made; it never raises.
C10_TerminateThenKill ==
    term.done =>
        /\ ~term.raised
        /\ (term.proc # "running" => term.trace = <<>>)
        /\ (term.proc = "running" =>
               /\ term.trace # <<>>
               /\ term.trace[1] = (IF term.os = "nt" THEN "send_signal"
                                                    ELSE "terminate"))
        /\ \A i \in DOMAIN term.trace :
              term.trace[i] = "kill" =>
                 /\ i = Len(term.trace)
                 /\ \E j \in 1..(i-1) : term.trace[j] = "terminate"
                 /\ ~(term.o.term /\ term.o.wait2)
                 /\ (term.o.term => term.trace[i-1] = "wait")

C10_Witness ==
    /\ term.done
    /\ term.proc = "running"
    /\ term.os = "nt"
    /\ term.trace = <<"send_signal", "wait", "terminate", "wait", "kill">>

C3_BearerBeforeWork == unauth_changes = {}

\* C4: no task is put on task_queue and no installer subprocess is spawned by
\* install_workflow, install_models or install_package unless
\* _verify_device_registration returned for that request.
C4_DeviceVerifiedBeforeInstall ==
    \A t \in Tickets :
        tasks[t].kind \in {"workflow", "model", "package"} => tasks[t].verified

\* C5: when _cleanup_running_processes, called at shutdown, returns,
\* running_processes and tasks_in_progress are both empty.
C5_CleanupLeavesEmpty ==
    [][(main.pc = "cleanup_loop" /\ main.handler = "shutdown"
            /\ main'.pc = "stopped")
         => (running_processes' = EmptyDict /\ tasks_in_progress' = {})]_vars

\* C6: whenever a subprocess spawned for a workflow, model, package or script
\* task is running, running_processes holds an entry under the task's id whose
\* 'process' is the handle of that subprocess.
C6_SpawnedIsTracked ==
    \A t \in Tickets :
        procs[t] = "running" =>
            /\ IdOf(t) \in DOMAIN running_processes
            /\ running_processes[IdOf(t)].process = t

\* C7 as stated: every write to nitra_active_updates, running_processes and
\* tasks_in_progress is made by a thread that holds task_worker_lock.
C7_AllThreeUnderLock == unlocked_writes = {}

\* C7 as the code has it: every write to running_processes and to
\* tasks_in_progress is made by a thread that holds task_worker_lock
\* (nitra_active_updates is written without it).
C7_ProcessDictsUnderLock ==
    unlocked_writes \cap {"running_processes", "tasks_in_progress"} = {}

C7_Witness ==
    /\ unlocked_writes = {"nitra_active_updates"}
    /\ \E w \in ThreadIds :
          /\ threads[w].pc = "wait"
          /\ <<tasks[threads[w].ticket].kind, IdOf(threads[w].ticket)>>
                 \in tasks_in_progress
          /\ IdOf(threads[w].ticket) \in DOMAIN running_processes

\* C9: once execute_workflow_task or execute_model_task has finished a task,
\* no temporary directory made by a download_script call for that task exists.
C9_WorkerDeletesTempDirs ==
    \A t \in finished : t \notin dirs /\ AuxDir(t) \notin dirs

\* C11: when cancel_execution returns success, running_processes holds no
\* entry whose id contains 'script', 'workflow', 'install' or 'model'.
C11_CancelLeavesNoEntry ==
    [][(main.pc = "cancel_updates" /\ main'.pc = "idle")
         => \A k \in DOMAIN running_processes' : ~should_cancel(k)]_vars

\* C12: execute_script answers 401 when the Bearer token is missing, 400 when
\* user_id is missing, 403 when the subscription check raises and 428 when
\* the device check raises, and in each of these cases it starts no script
\* thread and no subprocess and leaves running_processes unchanged.
C12_ScriptGating ==
    [][(response' # NoAnswer /\ response'.gate # "none")
         => /\ response'.status =
                  (CASE response'.gate = "bearer" -> 401
                     [] response'.gate = "user_id" -> 400
                     [] response'.gate = "subscription" -> 403
                     [] OTHER -> 428)
            /\ UNCHANGED <<running_processes, scripts, procs>>]_vars

\* C13: no accepted job is lost: in no reachable state is task_queue non-empty
\* while no worker thread is alive.
C13_NoJobLost ==
    task_queue # <<>> => \E w \in ThreadIds : is_alive(w)

Range(s) == {s[i] : i \in DOMAIN s}

\* C14: the step of cancel_execution that drains the queue removes every task
\* that was on task_queue when the lock was taken and counts them in
\* cleared_queue; the worker only ever starts a task that is on task_queue, so
\* a removed task is never executed.
C14_CancelClearsQueue ==
    [][/\ (main.pc = "cancel_locked" /\ main'.pc = "cancel_updates")
            => /\ task_queue' = <<>>
               /\ main'.cleared_queue = Len(task_queue)
       /\ \A t \in Range(started') \ Range(started) : t \in Range(task_queue)
       /\ Range(task_queue') \ Range(task_queue) \subseteq (nreq + 1)..MaxTasks
      ]_vars

C14_Witness ==
    /\ main.pc = "cancel_updates"
    /\ main.cleared_queue = 1
    /\ Len(started) = 1
    /\ task_queue = <<>>

\* C15: once cancel_execution has returned, no subprocess of a script
\* execution that was running when cancel_execution was called is running.
C15_ScriptCancelled ==
    [][(main.pc = "cancel_updates" /\ main'.pc = "idle")
         => \A t \in main.at_call :
               tasks[t].kind = "script" => procs'[t] # "running"]_vars

\* C16: a task that the worker dequeued and finished had an installer
\* subprocess run for it (the downloaded script, or task_data['cmd'] when the
\* script could not be obtained).
C16_FallbackRunsInstaller ==
    \A t \in finished : procs[t] # "none"

\* C17: when reset_queue returns, running_processes and tasks_in_progress are
\* empty.
C17_ResetLeavesEmpty ==
    [][(main.pc = "cleanup_loop" /\ main.handler = "reset_queue"
            /\ main'.pc = "idle")
         => (running_processes' = EmptyDict /\ tasks_in_progress' = {})]_vars

\* C18: once the shutdown cleanup has completed, no installer subprocess is
\* spawned any more.
C18_NoSpawnAfterShutdown ==
    [][main.pc = "stopped"
         => \A t \in Tickets : procs'[t] = "running" => procs[t] = "running"]_vars

\* C19: task_worker_lock is never requested by a thread that already holds
\* it: the main thread never waits for the lock while it is the holder.
C19_NoSelfDeadlock ==
    ~(main.pc = "signal_blocked" /\ task_worker_lock = MainThread)

\* C20: tasks_in_progress never holds more than one (task_type, id) entry, and
\* it is empty whenever task_worker_thread is None.
C20_InProgressReflectsWorker ==
    /\ Cardinality(tasks_in_progress) <= 1
    /\ task_worker_thread = None => tasks_in_progress = {}

C20_Witness ==
    /\ task_worker_thread = None
    /\ \E w \in ThreadIds : threads[w].pc = "dead"
    /\ Len(started) = 2
    /\ finished = {1, 2}
    /\ tasks_in_progress = {}

\* C21: an execute_script request without a Bearer token never creates or
\* overwrites a status record in nitra_active_updates, whatever its options.
C21_NoStatusWriteBeforeAuth ==
    [][(response' # NoAnswer /\ response'.gate = "bearer")
         => UNCHANGED nitra_active_updates]_vars

\* ======================================================================
\* Device state: the state file, the credential store, the cached token
\* ======================================================================
\* dev.exists / dev.file          device_state.json in the common directory
\* dev.legacy_exists / dev.legacy the old per-installation device_token.json
\* dev.cache                      _cached_device_token
\* dev.keyring / dev.store        keyring imported; its passwords by entry id
\* dev.written                    the last JSON _write_device_state dumped
\* dev.got / dev.ret              _get_device_token has run; its last result
\* dev.o                          which calls of the last _get_device_token
\*                                succeeded
Get(d, k) == IF k \in DOMAIN d THEN d[k] ELSE ""

Pop(d, k) == [x \in DOMAIN d \ {k} |-> d[x]]

Put(d, k, v) == [x \in DOMAIN d \cup {k} |-> IF x = k THEN v ELSE d[x]]

HasKey(d, k) == k \in DOMAIN d

\* rd: open(path) and json.load succeed; wr: the calls that change the common
\* directory (shutil.copy2, open(path, 'w'), os.remove) succeed; kr: the
\* keyring call raises no KeyringError
DeviceOutcomes == [rd : BOOLEAN, wr : BOOLEAN, kr : BOOLEAN]

KeyValues == [device_token |-> {"", "t0"}, device_id |-> {"d1"},
              secure_entry_id |-> {"d1"}, fingerprint_hash |-> {"f1"}]

StateFiles ==
    UNION { {f \in [S -> UNION {KeyValues[k] : k \in DOMAIN KeyValues}] :
                \A k \in S : f[k] \in KeyValues[k]} :
            S \in SUBSET DOMAIN KeyValues }

get_device_state_path(d, o) ==
    IF ~d.exists /\ d.legacy_exists /\ o.wr
    THEN [d EXCEPT !.exists = TRUE, !.file = d.legacy]
    ELSE d

read_device_state(d, o) ==
    LET d1 == get_device_state_path(d, o) IN
    [d |-> d1, state |-> IF d1.exists /\ o.rd THEN d1.file ELSE EmptyState]

get_secure_entry_id(state) ==
    IF DOMAIN state = {} THEN ""
    ELSE Or(Get(state, "secure_entry_id"), Get(state, "device_id"))

delete_secure_device_token(d, entry_id, o) ==
    IF ~Truthy(entry_id) THEN d
    ELSE [d EXCEPT !.store = IF d.keyring /\ o.kr THEN Pop(@, entry_id) ELSE @,
                   !.cache = ""]

store_device_token_secure(d, entry_id, token, o) ==
    IF ~Truthy(token) THEN [d |-> d, stored |-> FALSE]
    ELSE LET d1 == [d EXCEPT !.cache = token] IN
         IF ~Truthy(entry_id) \/ ~d.keyring \/ ~o.kr
         THEN [d |-> d1, stored |-> FALSE]
         ELSE [d |-> [d1 EXCEPT !.store = Put(@, entry_id, token)],
               stored |-> TRUE]

load_device_token_secure(d, entry_id, o) ==
    IF Truthy(d.cache) THEN [d |-> d, token |-> d.cache]
    ELSE IF ~Truthy(entry_id) \/ ~d.keyring \/ ~o.kr
    THEN [d |-> d, token |-> ""]
    ELSE LET token == Get(d.store, entry_id) IN
         [d |-> [d EXCEPT !.cache = token], token |-> token]

sanitize_keep(data) == data

\* sanitized = dict(data); sanitized.pop('device_token', None)
sanitize(data) == Pop(data, "device_token")

\* data with no key stands for None and for {} (`if not data`)
write_device_state(d, data, o) ==
    LET d0 == get_device_state_path(d, o) IN
    IF DOMAIN data = {}
    THEN LET r  == read_device_state(d0, o)
             d1 == delete_secure_device_token(r.d, get_secure_entry_id(r.state), o)
         IN [d1 EXCEPT !.cache = "",
                       !.exists = IF o.wr THEN FALSE ELSE @,
                       !.file = IF o.wr THEN EmptyState ELSE @]
    ELSE LET s0 == sanitize(data)
             sanitized ==
                 IF ~HasKey(s0, "secure_entry_id") /\ Truthy(Get(s0, "device_id"))
                 THEN Put(s0, "secure_entry_id", Get(s0, "device_id"))
                 ELSE s0
         IN IF o.wr
            THEN [d0 EXCEPT !.exists = TRUE, !.file = sanitized,
                            !.written = <<sanitized>>]
            ELSE d0

get_device_token(d, o) ==
    IF Truthy(d.cache) THEN [d |-> d, ret |-> d.cache]
    ELSE LET r == read_device_state(d, o)
             state == r.state
             legacy_token == Get(state, "device_token")
         IN IF Truthy(legacy_token)
            THEN LET entry_id == Or(Or(get_secure_entry_id(state),
                                       Get(state, "fingerprint_hash")),
                                    "nitra-device")
                     st == store_device_token_secure(r.d, entry_id, legacy_token, o)
                     state2 == Put(Pop(state, "device_token"),
                                   "secure_entry_id", entry_id)
                 IN [d |-> write_device_state(st.d, state2, o),
                     ret |-> legacy_token]
            ELSE LET l == load_device_token_secure(r.d, get_secure_entry_id(state), o)
                 IN [d |-> l.d, ret |-> l.token]

DevUnchanged ==
    UNCHANGED <<task_queue, tasks_in_progress, task_worker_lock,
                task_worker_thread, running_processes, nitra_active_updates,
                tasks, nreq, threads, procs, runners, dirs, main, scripts,
                started, finished, unlocked_writes, unauth_changes, response,
                term, sr>>

\* a call of _get_device_token (from get_device_identity, _get_device_context
\* or _build_upstream_headers)
GetDeviceToken(o) ==
    /\ LET g == get_device_token(dev, o) IN
       dev' = [g.d EXCEPT !.got = TRUE, !.ret = g.ret, !.o = o]
    /\ DevUnchanged

\* the arguments of a direct call: None or metadata, with or without a token
WriteInputs == {d \in StateFiles : ~HasKey(d, "fingerprint_hash")}

\* a direct call _write_device_state(data)
WriteDeviceState(data, o) ==
    /\ dev' = write_device_state(dev, data, o)
    /\ DevUnchanged

\* a handler that only calls _read_device_state (telemetry_login)
ReadDeviceState(o) ==
    /\ dev' = read_device_state(dev, o).d
    /\ DevUnchanged

\* what POST {WEBSITE_BASE_URL}/api/device/register answers
UpstreamAnswers == [ok : BOOLEAN, deviceToken : {"", "t1"}, deviceId : {"d1"},
                    status : {"registered", "device-unregistered"}]

\* the request was answered 401 before anything was sent upstream
NoUpstream == [ok |-> FALSE, deviceToken |-> "", deviceId |-> "",
               status |-> ""]

fingerprint_hash == "f1"

\* POST /nitra/device/register
register_device(bearer, answer, o) ==
    /\ IF ~bearer
       THEN dev' = dev
       ELSE LET r == read_device_state(dev, o) IN
            IF answer.ok /\ Truthy(answer.deviceToken) /\ Truthy(answer.deviceId)
            THEN LET entry_id == Or(Or(answer.deviceId, fingerprint_hash),
                                    "nitra-device")
                     st == store_device_token_secure(r.d, entry_id,
                                                     answer.deviceToken, o)
                 IN dev' = write_device_state(st.d,
                               [device_id |-> answer.deviceId,
                                fingerprint_hash |-> fingerprint_hash,
                                secure_entry_id |-> entry_id], o)
            ELSE IF answer.ok /\ answer.status = "device-unregistered"
            THEN dev' = write_device_state(r.d, EmptyState, o)
            ELSE dev' = r.d
    /\ DevUnchanged

\* the state file may be absent, written by this version, or left by an
\* older version that kept the token in it; the cache is None at import
InitDevice ==
    /\ InitCommon
    /\ term = NoTerm
    /\ sr = NoSr
    /\ \E f \in StateFiles, e, le, k \in BOOLEAN,
          st \in {EmptyState, [d1 |-> "t0"]} :
          dev = [NoDev EXCEPT !.exists = e,
                              !.file = IF e THEN f ELSE EmptyState,
                              !.legacy_exists = le,
                              !.legacy = IF le THEN [device_token |-> "t0",
                                                     device_id |-> "d1"]
                                         ELSE EmptyState,
                              !.keyring = k,
                              !.store = IF k THEN st ELSE EmptyState]

NextDevice ==
    \/ \E o \in DeviceOutcomes : GetDeviceToken(o)
    \/ \E data \in WriteInputs, o \in DeviceOutcomes : WriteDeviceState(data, o)
    \/ \E o \in DeviceOutcomes : ReadDeviceState(o)
    \/ \E bearer \in BOOLEAN :
          \E answer \in (IF bearer THEN UpstreamAnswers ELSE {NoUpstream}),
             o \in DeviceOutcomes : register_device(bearer, answer, o)

SpecDevice == InitDevice /\ [][NextDevice]_vars

\* the state file on disk contains a 'device_token' key
TokenInStateFile(d) == d.exists /\ HasKey(d.file, "device_token")

====
